---- MODULE Spec2Model ----
(***************************************************************************)
(* Model of the two batch jobs of workflowsManager:                        *)
(*   create_workflows.py   (the Deployer:  deploy_n8n_workflows)           *)
(*   execute_workflows.py  (the Activator: main)                           *)
(* They share one persisted artifact, data/workflows_ids.json.             *)
(***************************************************************************)
EXTENDS Integers, Sequences, FiniteSets, TLC

\* ------------------------------------------------------------------ bounds
\* Longest list of workflow files handed to deploy_n8n_workflows.
MaxFiles == 2
\* Longest JSON array found in the persisted file.
MaxIds == 2

\* ------------------------------------------------------ JSON and Python data
\* A scalar as Python holds it: a str, an int or None. v is its str() text.
Item(t, v) == [t |-> t, v |-> v]
StrItem(s) == Item("str", s)
NumItem(s) == Item("num", s)
None == Item("null", "")
\* What the log records as the `id` of a response that has no such field.
NoField == Item("absent", "")

\* A JSON document: an array (its elements), an object (its keys, in order),
\* a string (its characters), a number, true, false or null.
Json(t, v) == [t |-> t, v |-> v]
JsonList(items) == Json("list", items)
JsonNull == Json("null", << >>)

\* The persisted file: absent, text that is not JSON, or a JSON document.
NoFile == [k |-> "absent", v |-> JsonNull]
BadText == [k |-> "text", v |-> JsonNull]
JsonFile(doc) == [k |-> "json", v |-> doc]

\* Python truthiness of a scalar (`if workflow_id:`).
Truthy(x) ==
    CASE x.t = "str" -> x.v # ""
      [] x.t = "num" -> x.v # "0"
      [] OTHER -> FALSE

\* Python truthiness of a loaded document (`if not workflow_ids:`).
TruthyDoc(d) ==
    CASE d.t \in {"list", "obj", "str"} -> d.v # << >>
      [] d.t = "num" -> d.v # << NumItem("0") >>
      [] d.t = "true" -> TRUE
      [] OTHER -> FALSE

\* Sequences over S of length at most n.
SeqUpTo(S, n) == UNION {[1..k -> S] : k \in 0..n}

\* ------------------------------------------------------------ the Deployer
\* Inputs of one run of create_n8n_workflow_from_file.
Paths == {"p1", "p2"}
\* What is found at the path: nothing, an unreadable file, text that is not
\* JSON, a JSON document that is not an object, or a JSON object.
FileKinds == {"missing", "unreadable", "badjson", "nonobject", "object"}
\* What requests.post / raise_for_status / response.json() produce: the three
\* transport exceptions, an HTTP error status, a 2xx whose body is not JSON,
\* a 2xx whose body is JSON but no object, a 2xx with a JSON object.
RemoteOutcomes == {"conn", "timeout", "reqexc", "http", "notjson", "nonobj", "ok"}
\* The `id` field of a 2xx JSON object: absent, null, or an identifier.
ResponseIds == {NoField, None, StrItem("w1"), StrItem("w2")}

VARIABLES
    file,                   \* content of data/workflows_ids.json
    fileBefore,             \* its content when the current run started
    dpc,                    \* position of the Deployer
    workflow_files,         \* workflow_json_files, the list the script passes
    total_files,
    successful_deploys,
    deployed_workflow_ids,
    attempts,               \* log: one record per create_n8n_workflow_from_file call
    writes,                 \* log: one record per open(WORKFLOW_IDS_FILE, 'w')
    summary,                \* the Deployment Summary printed, or NoSummary
    rerun,                  \* the script ran before, with the same file list
    apc,                    \* position of the Activator
    workflow_ids,           \* what main() iterates over
    total_ids,
    successful_activations,
    requests,               \* log: one record per activation request
    message,                \* what main() reported when it stopped early
    asummary                \* the Activation Summary printed, or NoSummary

dvars == << dpc, workflow_files, total_files, successful_deploys,
            deployed_workflow_ids, attempts, writes, summary, rerun >>
avars == << apc, workflow_ids, total_ids, successful_activations, requests,
            message, asummary >>
vars == << file, fileBefore, dvars, avars >>

NoSummary == [attempted |-> -1, succeeded |-> -1, failed |-> -1]

\* dict.get(key, default) on the response body (lines 104-105).
DictGet(field, default) == IF field = NoField THEN default ELSE field

\* As create_n8n_workflow_from_file, but a file that is not JSON is submitted
\* all the same.
create_submits_unparsed(kind, outcome, rid) ==
    LET ret(s, i, r, x) == [success |-> s, id |-> i, request |-> r, raised |-> x] IN
    CASE kind \in {"missing", "unreadable"} -> ret(FALSE, None, FALSE, FALSE)
      [] kind = "nonobject" -> ret(FALSE, None, FALSE, TRUE)
      [] kind \in {"badjson", "object"} ->
            IF outcome = "ok"
            THEN ret(TRUE, DictGet(rid, StrItem("N/A")), TRUE, FALSE)
            ELSE ret(FALSE, None, TRUE, FALSE)

\* create_n8n_workflow_from_file: what it returns, whether it issued the
\* creation request, and whether an exception left it uncaught.
create_n8n_workflow_from_file(kind, outcome, rid) ==
    LET ret(s, i, r, x) == [success |-> s, id |-> i, request |-> r, raised |-> x] IN
    CASE kind = "missing" -> ret(FALSE, None, FALSE, FALSE)              \* 68-70
      [] kind \in {"badjson", "unreadable"} -> ret(FALSE, None, FALSE, FALSE) \* 78-83
      [] kind = "nonobject" -> ret(FALSE, None, FALSE, TRUE)             \* 96: no .get
      [] kind = "object" ->
            IF outcome = "ok"
            THEN ret(TRUE, DictGet(rid, StrItem("N/A")), TRUE, FALSE)    \* 99-107
            ELSE ret(FALSE, None, TRUE, FALSE)                           \* 109-124

\* As WriteIds, but appending to the array already in the file.
AppendIds(old, ids) ==
    IF old.k = "json" /\ old.v.t = "list"
    THEN JsonFile(JsonList(old.v.v \o ids))
    ELSE JsonFile(JsonList(ids))

\* json.dump(deployed_workflow_ids, f) through open(..., 'w'): the file is
\* replaced by the array.
WriteIds(old, ids) == JsonFile(JsonList(ids))

\* As NoFilesGiven, without the early return.
NeverReturnsEarly(files) == FALSE

\* `if not workflow_files:` (line 133).
NoFilesGiven(files) == files = << >>

\* As LoopExhausted, but leaving the loop after the first file.
StopsAfterFirst(done, files) == Len(done) >= 1 \/ Len(done) = Len(files)

\* The for loop of deploy_n8n_workflows has consumed its list (line 142).
LoopExhausted(done, files) == Len(done) = Len(files)

DeployerIdle == dpc \in {"idle", "returned", "done", "crashed"}

\* A run of the script: deploy_n8n_workflows(workflow_json_files) up to the
\* loop (lines 133-140, 171-176).
DeployStart ==
    /\ DeployerIdle
    /\ fileBefore' = file
    /\ rerun' = (dpc # "idle")
    /\ attempts' = << >>
    /\ writes' = << >>
    /\ summary' = NoSummary
    /\ successful_deploys' = 0
    /\ deployed_workflow_ids' = << >>
    /\ IF NoFilesGiven(workflow_files)
       THEN /\ dpc' = "returned"
            /\ total_files' = 0
       ELSE /\ dpc' = "loop"
            /\ total_files' = Len(workflow_files)
    /\ UNCHANGED << file, workflow_files, avars >>

\* One iteration of the loop (lines 142-149), the call included.
ProcessFile(kind, outcome, rid) ==
    /\ dpc = "loop"
    /\ ~LoopExhausted(attempts, workflow_files)
    /\ LET file_path == workflow_files[Len(attempts) + 1]
           r == create_n8n_workflow_from_file(kind, outcome, rid)
           sent == r.request
           entry == [path |-> file_path, kind |-> kind, request |-> sent,
                     success |-> r.success, id |-> r.id,
                     rid |-> IF r.success THEN rid ELSE NoField]
       IN /\ attempts' = Append(attempts, entry)
          /\ IF r.raised
             THEN /\ dpc' = "crashed"
                  /\ UNCHANGED << successful_deploys, deployed_workflow_ids >>
             ELSE /\ dpc' = "loop"
                  /\ successful_deploys' =
                        IF r.success THEN successful_deploys + 1 ELSE successful_deploys
                  /\ deployed_workflow_ids' =
                        IF r.success /\ Truthy(r.id)
                        THEN Append(deployed_workflow_ids, r.id)
                        ELSE deployed_workflow_ids
    /\ UNCHANGED << file, fileBefore, workflow_files, total_files, writes,
                    summary, rerun, avars >>

\* The summary and the save (lines 151-166). The write succeeds, or open()
\* fails and leaves the file as it was, or the write fails after open()
\* truncated the file. (Creating the data directory, lines 157-159, is taken
\* to succeed.)
SaveIds(result) ==
    /\ dpc = "loop"
    /\ LoopExhausted(attempts, workflow_files)
    /\ summary' = [attempted |-> total_files, succeeded |-> successful_deploys,
                   failed |-> total_files - successful_deploys]
    /\ writes' = Append(writes, [n |-> Len(attempts), result |-> result])
    /\ file' = CASE result = "ok" -> WriteIds(file, deployed_workflow_ids)
                 [] result = "openfail" -> file
                 [] result = "partial" -> BadText
    /\ dpc' = "done"
    /\ UNCHANGED << fileBefore, workflow_files, total_files, successful_deploys,
                    deployed_workflow_ids, attempts, rerun, avars >>

WriteResults == {"ok", "openfail", "partial"}

InitActivator ==
    /\ apc = "idle"
    /\ workflow_ids = << >>
    /\ total_ids = 0
    /\ successful_activations = 0
    /\ requests = << >>
    /\ message = "none"
    /\ asummary = NoSummary

InitDeployer ==
    /\ dpc = "idle"
    /\ total_files = 0
    /\ successful_deploys = 0
    /\ deployed_workflow_ids = << >>
    /\ attempts = << >>
    /\ writes = << >>
    /\ summary = NoSummary
    /\ rerun = FALSE

\* What data/workflows_ids.json may hold before the first run: nothing, or
\* the list an earlier deployment saved.
EarlierFiles == {NoFile, JsonFile(JsonList(<< StrItem("w0") >>))}

\* The Deployer script, run any number of times with its list of files.
DeployInit ==
    /\ file \in EarlierFiles
    /\ fileBefore = file
    /\ workflow_files \in SeqUpTo(Paths, MaxFiles)
    /\ InitDeployer
    /\ InitActivator

DeployNext ==
    \/ DeployStart
    \/ \E kind \in FileKinds \ {"object"} : ProcessFile(kind, "none", NoField)
    \/ \E outcome \in RemoteOutcomes \ {"ok"} : ProcessFile("object", outcome, NoField)
    \/ \E rid \in ResponseIds : ProcessFile("object", "ok", rid)
    \/ \E result \in WriteResults : SaveIds(result)

DeploySpec == DeployInit /\ [][DeployNext]_vars

\* ----------------------------------------------------------- the Activator
\* What activate_n8n_workflow's request meets: acceptance, 404, 400, another
\* HTTP error status, or one of the three transport exceptions.
ActivationOutcomes == {"ok", "404", "400", "http", "conn", "timeout", "reqexc"}

\* Scalars a persisted document is built from.
IdItems == {StrItem("a"), StrItem("b"), NumItem("7")}
\* Documents the persisted file may hold: arrays, objects (by their keys),
\* strings (by their characters), numbers, true, false, null.
Docs ==
    {JsonList(items) : items \in SeqUpTo(IdItems, MaxIds)}
    \cup {Json("obj", keys) : keys \in {<< >>, << StrItem("a") >>}}
    \cup {Json("str", chars) : chars \in {<< >>, << StrItem("a"), StrItem("b") >>}}
    \cup {Json("num", << NumItem("0") >>), Json("num", << NumItem("7") >>)}
    \cup {Json("true", << >>), Json("false", << >>), JsonNull}
FileContents == {NoFile, BadText} \cup {JsonFile(d) : d \in Docs}

\* As Exists, with the check left out.
ExistsUnchecked(f) == TRUE

\* os.path.exists(WORKFLOW_IDS_FILE) (line 73).
Exists(f) == f.k # "absent"

\* open() and json.load() (lines 79-89): the document, or which except
\* clause ran.
LoadIds(f, readable) ==
    CASE f.k = "absent" \/ ~readable -> [status |-> "read_error", doc |-> JsonNull]
      [] f.k = "text" -> [status |-> "parse_failure", doc |-> JsonNull]
      [] OTHER -> [status |-> "loaded", doc |-> f.v]

\* Python's len() is defined on lists, dicts and strings only (line 96).
HasLen(d) == d.t \in {"list", "obj", "str"}

\* What `for ... in enumerate(workflow_ids)` yields: a list's elements, a
\* dict's keys, a string's characters.
Iterate(d) == d.v

\* As activate_n8n_workflow, but taking a 400 ("already active") for success.
activate_counts_400(outcome) == outcome \in {"ok", "400"}

\* activate_n8n_workflow: True only when the request was accepted (37-66).
activate_n8n_workflow(outcome) == outcome = "ok"

ActivatorIdle == apc \in {"idle", "stopped", "done", "crashed"}

\* main() up to the loop (lines 73-98).
ActivateStart(readable) ==
    /\ ActivatorIdle
    /\ fileBefore' = file
    /\ requests' = << >>
    /\ successful_activations' = 0
    /\ asummary' = NoSummary
    /\ LET stop(why) == /\ apc' = "stopped"
                        /\ message' = why
                        /\ workflow_ids' = << >>
                        /\ total_ids' = 0
           loaded == LoadIds(file, readable)
       IN IF ~Exists(file) THEN stop("run_deploy_first")
          ELSE IF loaded.status # "loaded" THEN stop(loaded.status)
          ELSE IF ~TruthyDoc(loaded.doc) THEN stop("nothing_to_do")
          ELSE IF ~HasLen(loaded.doc)
          THEN /\ apc' = "crashed"                  \* TypeError from len()
               /\ message' = "none"
               /\ workflow_ids' = << >>
               /\ total_ids' = 0
          ELSE /\ apc' = "loop"
               /\ message' = "none"
               /\ workflow_ids' = Iterate(loaded.doc)
               /\ total_ids' = Len(Iterate(loaded.doc))
    /\ UNCHANGED << file, dvars >>

\* One iteration of main()'s loop (lines 101-105), the call included.
ActivateOne(outcome) ==
    /\ apc = "loop"
    /\ Len(requests) < Len(workflow_ids)
    /\ LET workflow_id == workflow_ids[Len(requests) + 1] IN
          /\ requests' = Append(requests, [id |-> workflow_id, outcome |-> outcome])
          /\ successful_activations' =
                IF activate_n8n_workflow(outcome)
                THEN successful_activations + 1
                ELSE successful_activations
    /\ UNCHANGED << file, fileBefore, apc, workflow_ids, total_ids, message,
                    asummary, dvars >>

\* The Activation Summary (lines 107-110).
ActivateSummary ==
    /\ apc = "loop"
    /\ Len(requests) = Len(workflow_ids)
    /\ asummary' = [attempted |-> total_ids, succeeded |-> successful_activations,
                    failed |-> total_ids - successful_activations]
    /\ apc' = "done"
    /\ UNCHANGED << file, fileBefore, workflow_ids, total_ids,
                    successful_activations, requests, message, dvars >>

\* The Activator script, run any number of times over whatever the persisted
\* file holds.
ActivateInit ==
    /\ file \in FileContents
    /\ fileBefore = file
    /\ workflow_files = << >>
    /\ InitDeployer
    /\ InitActivator

ActivateNext ==
    \/ \E readable \in BOOLEAN : ActivateStart(readable)
    \/ \E outcome \in ActivationOutcomes : ActivateOne(outcome)
    \/ ActivateSummary

ActivateSpec == ActivateInit /\ [][ActivateNext]_vars

\* ------------------------------------------------------------------ claims
\* Helpers for the statements below.
Indices(q) == 1..Len(q)
Terminated == dpc \in {"returned", "done", "crashed"}
WriteSucceeded == writes # << >> /\ writes[Len(writes)].result = "ok"
\* The `id` values of the creation responses received so far in this run.
ReceivedIds ==
    {attempts[i].rid : i \in {j \in Indices(attempts) :
                                  attempts[j].success /\ attempts[j].rid.t = "str"}}
RECURSIVE ResponseIdSeq(_)
\* The same, as a sequence in submission order.
ResponseIdSeq(log) ==
    IF log = << >> THEN << >>
    ELSE LET rest == ResponseIdSeq(SubSeq(log, 1, Len(log) - 1))
             e == log[Len(log)]
         IN IF e.success /\ e.rid.t = "str" THEN Append(rest, e.rid) ELSE rest
RECURSIVE KeptIds(_)
\* The identifiers returned by the successful calls so far, in order.
KeptIds(log) ==
    IF log = << >> THEN << >>
    ELSE LET rest == KeptIds(SubSeq(log, 1, Len(log) - 1))
             e == log[Len(log)]
         IN IF e.success /\ Truthy(e.id) THEN Append(rest, e.id) ELSE rest
Successes == Cardinality({i \in Indices(attempts) : attempts[i].success})
AttemptedPaths == [i \in Indices(attempts) |-> attempts[i].path]
RequestsSent == Cardinality({i \in Indices(attempts) : attempts[i].request})
IsListFile(f) == f.k = "json" /\ f.v.t = "list"
IsStringListFile(f) ==
    IsListFile(f) /\ \A i \in Indices(f.v.v) : f.v.v[i].t = "str"
\* The identifiers a file holds (none when it is absent or no array).
IdsIn(f) == IF IsListFile(f) THEN f.v.v ELSE << >>
Accepted == Cardinality({i \in Indices(requests) : requests[i].outcome = "ok"})
RequestedIds == [i \in Indices(requests) |-> requests[i].id]

\* C1: every element of the accumulated list, and of the file once this run
\* has written it, is the `id` of a creation response received in this run; a
\* response without `id` contributes nothing.
C1_OnlyReceivedIds ==
    /\ \A i \in Indices(deployed_workflow_ids) :
          deployed_workflow_ids[i] \in ReceivedIds
    /\ (dpc = "done" /\ WriteSucceeded) =>
          \A i \in Indices(file.v.v) : file.v.v[i] \in ReceivedIds

\* C2: after a run whose write succeeded the file holds exactly the `id`
\* values of the successful creation responses, in submission order.
C2_FileIsResponseIds ==
    (dpc = "done" /\ WriteSucceeded) =>
        file = JsonFile(JsonList(ResponseIdSeq(attempts)))

C6_LocalFailureSkipsRequest ==
    /\ \A i \in Indices(attempts) :
          attempts[i].kind \in {"missing", "badjson"} =>
              /\ ~attempts[i].request
              /\ ~attempts[i].success
              /\ attempts[i].id = None
    /\ successful_deploys = Successes
    /\ deployed_workflow_ids = KeptIds(attempts)
    /\ dpc = "done" =>
          /\ summary.attempted = Len(attempts)
          /\ summary.succeeded = Successes
          /\ summary.failed = Len(attempts) - Successes

C6_Witness ==
    /\ dpc = "done"
    /\ Len(attempts) = 2
    /\ attempts[1].kind = "missing"
    /\ attempts[2].kind = "badjson"
    /\ summary = [attempted |-> 2, succeeded |-> 0, failed |-> 2]
    /\ deployed_workflow_ids = << >>

\* C7: run with no persisted file, the Activator reports "run deploy first",
\* issues no activation request and leaves the file absent.
C7_NoFileNoRequests ==
    (apc # "idle" /\ fileBefore = NoFile) =>
        /\ apc = "stopped"
        /\ message = "run_deploy_first"
        /\ requests = << >>
        /\ asummary = NoSummary
        /\ file = NoFile

C7_Witness ==
    /\ apc = "stopped"
    /\ fileBefore = NoFile
    /\ message = "run_deploy_first"

\* C8: when the file holds anything but a list of strings, the Activator
\* issues no activation request.
C8_OnlyStringLists ==
    ~IsStringListFile(file) => requests = << >>

\* C9: over a loaded, non-empty list of strings the Activator issues one
\* request per element, in list order, goes on after failures, and reports
\* attempted = the length of the list, succeeded = the number accepted.
C9_OneRequestPerId ==
    (apc \in {"loop", "done"} /\ IsStringListFile(file)) =>
        /\ file.v.v # << >>
        /\ total_ids = Len(file.v.v)
        /\ RequestedIds = SubSeq(file.v.v, 1, Len(requests))
        /\ successful_activations = Accepted
        /\ apc = "done" =>
              /\ Len(requests) = Len(file.v.v)
              /\ asummary.attempted = Len(file.v.v)
              /\ asummary.succeeded = Accepted

C9_Witness ==
    /\ apc = "done"
    /\ file = JsonFile(JsonList(<< StrItem("a"), StrItem("b") >>))
    /\ requests = << [id |-> StrItem("a"), outcome |-> "ok"],
                     [id |-> StrItem("b"), outcome |-> "404"] >>
    /\ asummary = [attempted |-> 2, succeeded |-> 1, failed |-> 1]

\* C10: a run over a non-empty list attempts every path once, in order, with
\* at most one request each, and always ends with the write of the file.
C10_BestEffort ==
    /\ RequestsSent <= Len(attempts)
    /\ AttemptedPaths = SubSeq(workflow_files, 1, Len(attempts))
    /\ (Terminated /\ workflow_files # << >>) =>
          /\ AttemptedPaths = workflow_files
          /\ Len(writes) = 1

====
